---- MODULE Spec2Model ----
(***************************************************************************)
(* Swap-intent resolution of the LiFi widget wrappers.                     *)
(*                                                                         *)
(* Two wrapper components drive the embedded widget's form through         *)
(* formRef.current.setFieldValue:                                          *)
(*   "listener" - app/components/swap/LiFiWidgetWrapper.tsx, which listens *)
(*                for the window 'tokenSelect' CustomEvent and applies the *)
(*                category overrides;                                      *)
(*   "global"   - the wrapper that publishes window.__handleTokenSelect    *)
(*                and sets only the selected leg.                          *)
(* A behaviour renders one of the two.                                     *)
(*                                                                         *)
(* The market-data route app/api/solana/token-data/route.ts (POST and      *)
(* formatMarketCap) is modelled beside them; each specification below      *)
(* moves one part and holds the variables of the others still.             *)
(*                                                                         *)
(* Chain identifiers are decimal numerals: 1151111081099710 exceeds the    *)
(* 32-bit integers of the model checker, and the program only compares     *)
(* chain identifiers with ===.                                             *)
(***************************************************************************)
EXTENDS Integers, Sequences, FiniteSets, TLC

VARIABLES
    wrapper,                 \* which wrapper component the page renders
    mounted,                 \* the wrapper's registration effect has run
    formRef,                 \* formRef.current is non-null
    form,                    \* the widget's live form state
    prev,                    \* the form state before the last dispatched selection
    lastEvent,               \* the selection last delivered to a handler {type, token}
    cmds,                    \* the setFieldValue calls made for lastEvent, in order
    outcome,                 \* what became of the last dispatched selection
    threw,                   \* an exception reached the dispatcher of that selection
    lastIsPrivateStock,      \* the handler's two classification flags for lastEvent.token
    lastIsPublicTokenizedStock,
    request,                 \* the body of the POST the route is serving
    lookups,                 \* the per-address async callbacks of that POST, by input position
    settled,                 \* the input positions whose callback has settled, in that order
    providerCalls,           \* the provider calls issued for that POST
    response,                \* the NextResponse the POST returned
    otherBatch,              \* a second POST in flight beside it: its request, lookups,
                             \* settled, providerCalls and response
    marketCapValue,          \* the argument of formatMarketCap
    marketCapText            \* the string formatMarketCap returned for it

\* the variables of the wrappers
wrapperVars == <<wrapper, mounted, formRef, form, prev, lastEvent, cmds, outcome,
                 threw, lastIsPrivateStock, lastIsPublicTokenizedStock>>

\* the variables of the route's POST
routeVars == <<request, lookups, settled, providerCalls, response, otherBatch>>

\* the variables of formatMarketCap
formatVars == <<marketCapValue, marketCapText>>

vars == <<wrapperVars, routeVars, formatVars>>

----------------------------------------------------------------------------
\* Program constants

SOLANA_USDC == "EPjFWdd5AufqSSqeM2qN1xzybapC8G4wEGGkZwyTDt1v"

SOLANA_CHAIN_ID_TOKENSEARCH == "101"

SOLANA_CHAIN_ID_LIFI == "1151111081099710"

ETHEREUM_USDC == "0xA0b86991c6218b36c1d19D4a2e9Eb0cE3606eB48"

ETHEREUM_CHAIN_ID == "1"

INITIAL_TO_TOKEN == "0x2d1f7226bd1f780af6b9a49dcc0ae00e8df4bdee"

INITIAL_FROM_AMOUNT == "100"

----------------------------------------------------------------------------
\* Bounds and the inputs drawn from them

MaxOtherChains == 1

MaxOtherTokens == 1

\* chains the handlers do not compare against (Polygon, the widget's own Solana
\* identifier, Optimism)
OtherChainList == <<"137", SOLANA_CHAIN_ID_LIFI, "10">>

ETHEREUM_USDC_LOWERCASE == "0xa0b86991c6218b36c1d19d4a2e9eb0ce3606eb48"

\* addresses other than the ones the handlers name
OtherTokenList == <<"X", INITIAL_TO_TOKEN, SOLANA_USDC>>

Take(list, n) == {list[i] : i \in 1..(IF n < Len(list) THEN n ELSE Len(list))}

ChainIds == {ETHEREUM_CHAIN_ID, SOLANA_CHAIN_ID_TOKENSEARCH}
                \cup Take(OtherChainList, MaxOtherChains)

\* the chains wagmi's useChainId can report (EVM chains)
WalletChainIds == {ETHEREUM_CHAIN_ID, OtherChainList[1]}

Addresses == {ETHEREUM_USDC, ETHEREUM_USDC_LOWERCASE, ""}
                \cup Take(OtherTokenList, MaxOtherTokens)

Tokens == [chainId : ChainIds, address : Addresses]

SelectionTypes == {"sell", "buy"}

Wrappers == {"listener", "global"}

NoEvent == [type |-> "none", token |-> [chainId |-> "0", address |-> ""]]

----------------------------------------------------------------------------
\* String.prototype.toLowerCase over the ASCII letters.  A string is held by
\* its text; CharsOf lists its characters, and the lowered string is compared
\* as a character sequence.

\* the characters of each string the model handles
CharsOf ==
    ("" :> <<>>)
    @@ ("X" :> <<"X">>)
    @@ (SOLANA_USDC :>
        <<"E","P","j","F","W","d","d","5","A","u","f","q","S","S","q","e","M","2","q","N","1","x","z","y","b","a","p","C","8","G","4","w","E","G","G","k","Z","w","y","T","D","t","1","v">>)
    @@ (ETHEREUM_USDC :>
        <<"0","x","A","0","b","8","6","9","9","1","c","6","2","1","8","b","3","6","c","1","d","1","9","D","4","a","2","e","9","E","b","0","c","E","3","6","0","6","e","B","4","8">>)
    @@ (INITIAL_TO_TOKEN :>
        <<"0","x","2","d","1","f","7","2","2","6","b","d","1","f","7","8","0","a","f","6","b","9","a","4","9","d","c","c","0","a","e","0","0","e","8","d","f","4","b","d","e","e">>)
    @@ (ETHEREUM_USDC_LOWERCASE :>
        <<"0","x","a","0","b","8","6","9","9","1","c","6","2","1","8","b","3","6","c","1","d","1","9","d","4","a","2","e","9","e","b","0","c","e","3","6","0","6","e","b","4","8">>)
    @@ (" " :> <<" ">>)
    @@ ("STOCK" :> <<"S","T","O","C","K">>)
    @@ ("COIN" :> <<"C","O","I","N">>)
    @@ ("ODD" :> <<"O","D","D">>)


UpperCaseLetters == <<"A","B","C","D","E","F","G","H","I","J","K","L","M","N","O","P","Q","R","S","T","U","V","W","X","Y","Z">>

LowerCaseLetters == <<"a","b","c","d","e","f","g","h","i","j","k","l","m","n","o","p","q","r","s","t","u","v","w","x","y","z">>

LowerCaseOf ==
    [c \in {UpperCaseLetters[i] : i \in 1..Len(UpperCaseLetters)} |->
        LowerCaseLetters[CHOOSE i \in 1..Len(UpperCaseLetters) : UpperCaseLetters[i] = c]]

toLowerCaseChar(c) == IF c \in DOMAIN LowerCaseOf THEN LowerCaseOf[c] ELSE c

\* variant: the comparison left case-sensitive
toLowerCase_CaseSensitive(s) == CharsOf[s]

toLowerCase(s) == [i \in 1..Len(CharsOf[s]) |-> toLowerCaseChar(CharsOf[s][i])]

----------------------------------------------------------------------------
\* The widget's field-control interface

\* one formRef.current.setFieldValue(field, value, { setUrlSearchParam: true })
Call(fieldName, value) == [field |-> fieldName, value |-> value]

setFieldValue(f, fieldName, value) == [f EXCEPT ![fieldName] = value]

RECURSIVE ApplyCalls(_, _)
ApplyCalls(f, calls) ==
    IF calls = <<>> THEN f
    ELSE ApplyCalls(setFieldValue(f, Head(calls).field, Head(calls).value), Tail(calls))

\* formRef.current.setFieldValue(...) in sequence: with formRef.current null the
\* first property access throws a TypeError and nothing is issued
Invoke(ref, calls) ==
    IF ref THEN [cmds |-> calls, threw |-> FALSE]
    ELSE [cmds |-> <<>>, threw |-> TRUE]

\* a handler that returns before classifying and before any setFieldValue
EarlyReturn ==
    [cmds |-> <<>>, threw |-> FALSE,
     isPrivateStock |-> FALSE, isPublicTokenizedStock |-> FALSE]

----------------------------------------------------------------------------
\* handleTokenSelect of app/components/swap/LiFiWidgetWrapper.tsx

isPrivateStock(token) == token.chainId = SOLANA_CHAIN_ID_TOKENSEARCH

isPublicTokenizedStock(token) ==
    /\ token.chainId = ETHEREUM_CHAIN_ID
    /\ toLowerCase(token.address) # toLowerCase(ETHEREUM_USDC)

\* variant: the sell branch also clears the amount
SellCalls_ClearsAmount(token) ==
    << Call("fromChain", token.chainId),
       Call("fromToken", token.address),
       Call("fromAmount", "") >>

\* variant: the sell branch writes the chain to the other leg
SellCalls_WrongLeg(token) ==
    << Call("toChain", token.chainId),
       Call("fromToken", token.address) >>

\* variant: the sell branch applies the private-stock override
SellCalls_Override(token) ==
    IF token.chainId = SOLANA_CHAIN_ID_TOKENSEARCH
    THEN << Call("fromChain", SOLANA_CHAIN_ID_LIFI),
            Call("fromToken", SOLANA_USDC) >>
    ELSE << Call("fromChain", token.chainId),
            Call("fromToken", token.address) >>

SellCalls(token) ==
    << Call("fromChain", token.chainId),
       Call("fromToken", token.address) >>

\* variant: the destination chain is taken from the token (the search identifier)
PrivateStockCalls_SearchId(token) ==
    << Call("fromChain", SOLANA_CHAIN_ID_LIFI),
       Call("fromToken", SOLANA_USDC),
       Call("toChain", token.chainId),
       Call("toToken", token.address) >>

\* variant: the token of each leg is set before its chain
PrivateStockCalls_TokenFirst(token) ==
    << Call("fromToken", SOLANA_USDC),
       Call("fromChain", SOLANA_CHAIN_ID_LIFI),
       Call("toToken", token.address),
       Call("toChain", SOLANA_CHAIN_ID_LIFI) >>

PrivateStockCalls(token) ==
    << Call("fromChain", SOLANA_CHAIN_ID_LIFI),
       Call("fromToken", SOLANA_USDC),
       Call("toChain", SOLANA_CHAIN_ID_LIFI),
       Call("toToken", token.address) >>

\* variant: the source is not forced to USDC
PublicTokenizedStockCalls_NoForce(token) ==
    << Call("toChain", ETHEREUM_CHAIN_ID),
       Call("toToken", token.address) >>

PublicTokenizedStockCalls(token) ==
    << Call("fromChain", ETHEREUM_CHAIN_ID),
       Call("fromToken", ETHEREUM_USDC),
       Call("toChain", ETHEREUM_CHAIN_ID),
       Call("toToken", token.address) >>

\* variant: the chain is set only when the form holds another one
RegularCalls_SkipSameChain(token) ==
    IF form.toChain = token.chainId
    THEN << Call("toToken", token.address) >>
    ELSE << Call("toChain", token.chainId),
            Call("toToken", token.address) >>

\* variant: the regular branch forces the USDC source too
RegularCalls_ForceSource(token) ==
    << Call("fromChain", ETHEREUM_CHAIN_ID),
       Call("fromToken", ETHEREUM_USDC),
       Call("toChain", token.chainId),
       Call("toToken", token.address) >>

RegularCalls(token) ==
    << Call("toChain", token.chainId),
       Call("toToken", token.address) >>

\* variant: the formRef.current check is missing
handleTokenSelect_NoRefCheck(ref, type, token) ==
    LET private == isPrivateStock(token)
        public  == isPublicTokenizedStock(token)
        calls   == IF type = "sell" THEN SellCalls(token)
                   ELSE IF private THEN PrivateStockCalls(token)
                   ELSE IF public THEN PublicTokenizedStockCalls(token)
                   ELSE RegularCalls(token)
        r       == Invoke(ref, calls)
    IN  [cmds |-> r.cmds, threw |-> r.threw,
         isPrivateStock |-> private, isPublicTokenizedStock |-> public]

handleTokenSelect(ref, type, token) ==
    IF ~ref THEN EarlyReturn
    ELSE LET private == isPrivateStock(token)
             public  == isPublicTokenizedStock(token)
             calls   == IF type = "sell" THEN SellCalls(token)
                        ELSE IF private THEN PrivateStockCalls(token)
                        ELSE IF public THEN PublicTokenizedStockCalls(token)
                        ELSE RegularCalls(token)
             r       == Invoke(ref, calls)
         IN  [cmds |-> r.cmds, threw |-> r.threw,
              isPrivateStock |-> private, isPublicTokenizedStock |-> public]

----------------------------------------------------------------------------
\* handleTokenSelect of the wrapper that publishes window.__handleTokenSelect

LegCalls(type, token) ==
    LET fieldName      == IF type = "sell" THEN "fromToken" ELSE "toToken"
        chainFieldName == IF type = "sell" THEN "fromChain" ELSE "toChain"
    IN  << Call(chainFieldName, token.chainId),
           Call(fieldName, token.address) >>

handleTokenSelectCallback(ref, type, token) ==
    IF ~ref \/ token.address = "" THEN EarlyReturn
    ELSE LET r == Invoke(ref, LegCalls(type, token))
         IN  \* the try/catch around the calls keeps any exception from the caller
             [cmds |-> r.cmds, threw |-> FALSE,
              isPrivateStock |-> FALSE, isPublicTokenizedStock |-> FALSE]

----------------------------------------------------------------------------
\* The parts at rest

\* JavaScript values: a type tag with the number or the text it carries
Undefined == [t |-> "undefined", n |-> 0, s |-> ""]

Null == [t |-> "null", n |-> 0, s |-> ""]

NaN == [t |-> "NaN", n |-> 0, s |-> ""]

Num(k) == [t |-> "number", n |-> k, s |-> ""]

Str(x) == [t |-> "string", n |-> 0, s |-> x]

\* no POST has been received
NoRequest == [kind |-> "none", addresses |-> [t |-> "undefined", items |-> <<>>]]

\* the POST has not returned
NoResponse == [status |-> 0, chainId |-> 0, tokens |-> <<>>, error |-> Undefined]

\* a POST that has not been received
NoBatch ==
    [request |-> NoRequest, lookups |-> <<>>, settled |-> <<>>,
     providerCalls |-> {}, response |-> NoResponse]

\* the route before any request
RouteIdle ==
    /\ request = NoRequest
    /\ lookups = <<>>
    /\ settled = <<>>
    /\ providerCalls = {}
    /\ response = NoResponse
    /\ otherBatch = NoBatch

\* an argument of formatMarketCap in millions and units: hi * 10^6 + lo
Amount(hi, lo) == [hi |-> hi, lo |-> lo]

\* formatMarketCap not called
FormatIdle ==
    /\ marketCapValue = Amount(0, 0)
    /\ marketCapText = ""

----------------------------------------------------------------------------
\* The state machine of the wrappers

\* the form fields the widget is configured with
config(w, walletChain) ==
    IF w = "listener"
    THEN [fromChain  |-> ETHEREUM_CHAIN_ID,
          toChain    |-> ETHEREUM_CHAIN_ID,
          fromToken  |-> ETHEREUM_USDC,
          toToken    |-> INITIAL_TO_TOKEN,
          fromAmount |-> INITIAL_FROM_AMOUNT]
    ELSE [fromChain  |-> walletChain,
          toChain    |-> walletChain,
          fromToken  |-> ETHEREUM_USDC,
          toToken    |-> INITIAL_TO_TOKEN,
          fromAmount |-> INITIAL_FROM_AMOUNT]

Init ==
    /\ wrapper \in Wrappers
    /\ mounted = FALSE
    /\ formRef = FALSE
    /\ \E walletChain \in WalletChainIds : form = config(wrapper, walletChain)
    /\ prev = form
    /\ lastEvent = NoEvent
    /\ cmds = <<>>
    /\ outcome = "none"
    /\ threw = FALSE
    /\ lastIsPrivateStock = FALSE
    /\ lastIsPublicTokenizedStock = FALSE
    /\ RouteIdle
    /\ FormatIdle

last == <<prev, lastEvent, cmds, outcome, threw, lastIsPrivateStock, lastIsPublicTokenizedStock>>

\* the registration effect: addEventListener('tokenSelect'), or
\* window.__handleTokenSelect = ...; the widget is not rendered yet
Mount ==
    /\ ~mounted
    /\ mounted' = TRUE
    /\ UNCHANGED <<wrapper, formRef, form, last, routeVars, formatVars>>

\* the widget renders and fills formRef.current
WidgetReady ==
    /\ mounted
    /\ ~formRef
    /\ formRef' = TRUE
    /\ UNCHANGED <<wrapper, mounted, form, last, routeVars, formatVars>>

\* the effect's cleanup: removeEventListener, or delete window.__handleTokenSelect.
\* The widget goes with the component; its fields stay in the address bar
\* (buildUrl, setUrlSearchParam), from which a later widget starts.
Unmount ==
    /\ mounted
    /\ mounted' = FALSE
    /\ formRef' = FALSE
    /\ UNCHANGED <<wrapper, form, last, routeVars, formatVars>>

\* a selection reaches the registered handler, r being the handler's result
Delivered(type, token, r) ==
    /\ lastEvent' = [type |-> type, token |-> token]
    /\ prev' = form
    /\ cmds' = r.cmds
    /\ form' = ApplyCalls(form, r.cmds)
    /\ outcome' = IF ~formRef THEN "notReady"
                  ELSE IF r.cmds = <<>> THEN "ignored"
                  ELSE "applied"
    /\ threw' = r.threw
    /\ lastIsPrivateStock' = r.isPrivateStock
    /\ lastIsPublicTokenizedStock' = r.isPublicTokenizedStock
    /\ UNCHANGED <<wrapper, mounted, formRef, routeVars, formatVars>>

\* a selection is dispatched while no handler is registered: nothing runs
Unheard ==
    /\ lastEvent' = NoEvent
    /\ prev' = form
    /\ cmds' = <<>>
    /\ outcome' = "unheard"
    /\ threw' = FALSE
    /\ lastIsPrivateStock' = FALSE
    /\ lastIsPublicTokenizedStock' = FALSE
    /\ UNCHANGED <<wrapper, mounted, formRef, form, routeVars, formatVars>>

\* variant: the listener stays on window after the cleanup
tokenSelect_NeverRemoved(type, token) ==
    /\ wrapper = "listener"
    /\ Delivered(type, token, handleTokenSelect(formRef, type, token))

\* window.dispatchEvent(new CustomEvent('tokenSelect', { detail: { token, type } }))
tokenSelect(type, token) ==
    /\ wrapper = "listener"
    /\ IF mounted
       THEN Delivered(type, token, handleTokenSelect(formRef, type, token))
       ELSE Unheard

\* window.__handleTokenSelect(token, type), which forwards to the handler; while
\* the property is deleted there is nothing to call
window__handleTokenSelect(type, token) ==
    /\ wrapper = "global"
    /\ IF mounted
       THEN Delivered(type, token, handleTokenSelectCallback(formRef, type, token))
       ELSE Unheard

Next ==
    \/ Mount
    \/ WidgetReady
    \/ Unmount
    \/ \E type \in SelectionTypes, token \in Tokens : tokenSelect(type, token)
    \/ \E type \in SelectionTypes, token \in Tokens : window__handleTokenSelect(type, token)

Spec == Init /\ [][Next]_vars

TypeOK ==
    /\ wrapper \in Wrappers
    /\ mounted \in BOOLEAN
    /\ formRef \in BOOLEAN
    /\ formRef => mounted
    /\ outcome \in {"none", "unheard", "notReady", "ignored", "applied"}

----------------------------------------------------------------------------
\* app/api/solana/token-data/route.ts: values and inputs

MaxBatch == 2

typeof(x) ==
    IF x.t = "NaN" THEN "number"
    ELSE IF x.t = "null" THEN "object"
    ELSE x.t

\* the global isNaN, which converts its argument with Number() first
isNaN(x) == x.t \in {"NaN", "undefined"}

\* ToBoolean of a primitive
Truthy(x) ==
    \/ x.t = "number" /\ x.n # 0
    \/ x.t = "string" /\ x.s # ""

\* a || b
Or(a, b) == IF Truthy(a) THEN a ELSE b

WhiteSpace == {" "}

RECURSIVE trimStart(_)
trimStart(chars) ==
    IF chars # <<>> /\ Head(chars) \in WhiteSpace THEN trimStart(Tail(chars))
    ELSE chars

RECURSIVE trimEnd(_)
trimEnd(chars) ==
    IF chars # <<>> /\ chars[Len(chars)] \in WhiteSpace
    THEN trimEnd(SubSeq(chars, 1, Len(chars) - 1))
    ELSE chars

\* String.prototype.trim
trim(x) == trimEnd(trimStart(CharsOf[x]))

\* token addresses a client asks about
RouteAddresses == {"STOCK", "COIN", "ODD"}

\* what a client can put in the addresses array
Entries == {Str(a) : a \in RouteAddresses} \cup {Str(""), Str(" "), Num(5)}

RECURSIVE Lists(_, _)
Lists(S, n) ==
    IF n = 0 THEN {<<>>}
    ELSE Lists(S, n - 1)
         \cup {Append(l, e) : l \in {m \in Lists(S, n - 1) : Len(m) = n - 1}, e \in S}

\* the value of the addresses property of a parsed body
Array(items) == [t |-> "array", items |-> items]

NotArray(tag) == [t |-> tag, items |-> <<>>]

\* the bodies a client can send: text that is not JSON, the JSON null, a JSON
\* number, an object without addresses, one whose addresses is a string, and
\* objects whose addresses is an array
Bodies ==
    {[kind |-> "unparseable", addresses |-> NotArray("undefined")],
     [kind |-> "null", addresses |-> NotArray("undefined")],
     [kind |-> "number", addresses |-> NotArray("undefined")],
     [kind |-> "object", addresses |-> NotArray("undefined")],
     [kind |-> "object", addresses |-> NotArray("string")]}
    \cup {[kind |-> "object", addresses |-> Array(l)] : l \in Lists(Entries, MaxBatch)}

----------------------------------------------------------------------------
\* route.ts: the providers.  fetchTokenPriceByAddress (lib/api/coingecko),
\* getTokenMetadata, isTokenizedStock and getStockTicker (lib/utils/token) and
\* yahoo-finance2 are outside the route; the route sees only what they return.

\* Jupiter integration disabled
fetchJupiterLiquidity(tokenAddress) == Null

fetchJupiterMarketCap(tokenAddress) == Null

CoinData(volume, cap, change) ==
    [isNull |-> FALSE, total_volume |-> volume, market_cap |-> cap,
     price_change_percentage_24h |-> change]

NoCoinData ==
    [isNull |-> TRUE, total_volume |-> Undefined, market_cap |-> Undefined,
     price_change_percentage_24h |-> Undefined]

\* the outcomes of fetchTokenPriceByAddress(101, address): it throws, it
\* resolves to null, or it resolves to market data with fields filled or not
CoingeckoReplies ==
    {[kind |-> "throws", data |-> NoCoinData],
     [kind |-> "returns", data |-> NoCoinData],
     [kind |-> "returns", data |-> CoinData(Num(5000), Num(472000), Num(-2))],
     [kind |-> "returns", data |-> CoinData(Num(0), Num(0), Num(0))],
     [kind |-> "returns", data |-> CoinData(Num(5000), Num(472000), NaN)],
     [kind |-> "returns", data |-> CoinData(Num(5000), Undefined, Null)]}

NoCoingeckoReply == [kind |-> "none", data |-> NoCoinData]

Quote(regular, change) ==
    [isNull |-> FALSE, regularMarketChangePercent |-> regular, changePercent |-> change]

NoQuote ==
    [isNull |-> TRUE, regularMarketChangePercent |-> Undefined, changePercent |-> Undefined]

\* the outcomes of import('yahoo-finance2') followed by yf.quote(ticker)
YahooReplies ==
    {[kind |-> "throws", data |-> NoQuote],
     [kind |-> "returns", data |-> NoQuote],
     [kind |-> "returns", data |-> Quote(Num(2), Undefined)],
     [kind |-> "returns", data |-> Quote(Num(0), Num(7))],
     [kind |-> "returns", data |-> Quote(Undefined, NaN)]}

NoYahooReply == [kind |-> "none", data |-> NoQuote]

\* the static token catalog behind getTokenMetadata: a tokenized stock with a
\* ticker, a token that is no stock, and an address whose lookup throws
TokenCatalog ==
    ("STOCK" :> [kind |-> "token", isTokenizedStock |-> TRUE, ticker |-> "TSLA"])
    @@ ("COIN" :> [kind |-> "token", isTokenizedStock |-> FALSE, ticker |-> ""])
    @@ ("ODD" :> [kind |-> "throws", isTokenizedStock |-> FALSE, ticker |-> ""])

getTokenMetadata(address) ==
    IF address \in DOMAIN TokenCatalog THEN TokenCatalog[address]
    ELSE [kind |-> "undefined", isTokenizedStock |-> FALSE, ticker |-> ""]

----------------------------------------------------------------------------
\* route.ts: the async callback of addresses.map, one per address

\* coingeckoData?.name
Optional(data, name) == IF data.isNull THEN Undefined ELSE data[name]

\* the callback at its start
NewLookup(address) ==
    [address |-> address,
     pc |-> "fetchTokenPriceByAddress",
     stalled |-> FALSE,
     coingeckoData |-> NoCoingeckoReply,
     quote |-> NoYahooReply,
     result |-> [address |-> address, volumeUSD |-> Undefined, tvlUSD |-> Undefined,
                 marketCap |-> Undefined, marketCapFormatted |-> Undefined,
                 priceChange24h |-> Undefined]]

\* variant: the CoinGecko branch is not an else of the Jupiter branch
marketCapFields_NoElse(jupiterMarketCapFormatted, coingeckoData) ==
    [marketCapFormatted |-> IF Truthy(jupiterMarketCapFormatted)
                            THEN jupiterMarketCapFormatted ELSE Undefined,
     marketCap |-> IF Truthy(Optional(coingeckoData, "market_cap"))
                   THEN Optional(coingeckoData, "market_cap") ELSE Undefined]

\* the market-cap fields of result
marketCapFields(jupiterMarketCapFormatted, coingeckoData) ==
    IF Truthy(jupiterMarketCapFormatted)
    THEN [marketCapFormatted |-> jupiterMarketCapFormatted, marketCap |-> Undefined]
    ELSE IF Truthy(Optional(coingeckoData, "market_cap"))
    THEN [marketCapFormatted |-> Undefined, marketCap |-> Optional(coingeckoData, "market_cap")]
    ELSE [marketCapFormatted |-> Undefined, marketCap |-> Undefined]

\* result as built before the price change is looked at
NewResult(address, jupiterLiquidity, jupiterMarketCapFormatted, coingeckoData) ==
    LET cap == marketCapFields(jupiterMarketCapFormatted, coingeckoData)
    IN  [address |-> address,
         volumeUSD |-> Or(Optional(coingeckoData, "total_volume"), Num(0)),
         tvlUSD |-> IF /\ jupiterLiquidity.t = "number"
                       /\ jupiterLiquidity.n > 0
                    THEN jupiterLiquidity ELSE Undefined,
         marketCap |-> cap.marketCap,
         marketCapFormatted |-> cap.marketCapFormatted,
         priceChange24h |-> Undefined]

\* variant: the fallback is tried whatever CoinGecko returned
needsFallback_Always(priceChange24h, address) == address # ""

\* the test that sends the callback to the yfinance fallback
needsFallback(priceChange24h, address) ==
    /\ \/ priceChange24h.t = "undefined"
       \/ priceChange24h.t = "null"
       \/ isNaN(priceChange24h)
    /\ address # ""

\* tokenMetadata && isTokenizedStock(tokenMetadata.token), then a ticker
hasTicker(tokenMetadata) ==
    /\ tokenMetadata.kind = "token"
    /\ tokenMetadata.isTokenizedStock
    /\ tokenMetadata.ticker # ""

\* variant: priceChange24h is stored without the test
Return_NoCheck(l, result, priceChange24h) ==
    [l EXCEPT !.pc = "returned",
              !.result = [result EXCEPT !.priceChange24h = priceChange24h]]

\* the callback returns result, with priceChange24h when it is a number
Return(l, result, priceChange24h) ==
    [l EXCEPT !.pc = "returned",
              !.result = IF /\ priceChange24h.t # "undefined"
                            /\ priceChange24h.t # "null"
                            /\ ~isNaN(priceChange24h)
                         THEN [result EXCEPT !.priceChange24h = priceChange24h]
                         ELSE result]

\* variant: on error every field is returned as zero
catchLookup_Zeroes(l) ==
    [l EXCEPT !.pc = "returned",
              !.result = [address |-> l.address, volumeUSD |-> Num(0),
                          tvlUSD |-> Num(0), marketCap |-> Num(0),
                          marketCapFormatted |-> Undefined,
                          priceChange24h |-> Num(0)]]

\* variant: the callback has no catch of its own, its promise rejects
catchLookup_Rethrow(l) == [l EXCEPT !.pc = "rejected"]

\* the callback's outer catch: the token with zero values
catchLookup(l) ==
    [l EXCEPT !.pc = "returned",
              !.result = [address |-> l.address, volumeUSD |-> Num(0),
                          tvlUSD |-> Undefined, marketCap |-> Undefined,
                          marketCapFormatted |-> Undefined,
                          priceChange24h |-> Undefined]]

\* variant: the fallback has no catch of its own, the outer catch takes over
catchFallback_Escalate(l, result, priceChange24h) == catchLookup(l)

\* the two inner catches: continue with priceChange24h as it was
catchFallback(l, result, priceChange24h) == Return(l, result, priceChange24h)

\* the callback resumed with the outcome of fetchTokenPriceByAddress
afterFetchTokenPrice(l, reply) ==
    IF reply.kind = "throws" THEN catchLookup([l EXCEPT !.coingeckoData = reply])
    ELSE LET coingeckoData  == reply.data
             result         == NewResult(l.address, fetchJupiterLiquidity(l.address),
                                         fetchJupiterMarketCap(l.address), coingeckoData)
             priceChange24h == Optional(coingeckoData, "price_change_percentage_24h")
             seen           == [l EXCEPT !.coingeckoData = reply]
         IN  IF ~needsFallback(priceChange24h, l.address)
             THEN Return(seen, result, priceChange24h)
             ELSE IF getTokenMetadata(l.address).kind = "throws"
             THEN catchFallback(seen, result, priceChange24h)
             ELSE IF hasTicker(getTokenMetadata(l.address))
             THEN [seen EXCEPT !.pc = "quote", !.result = result]
             ELSE Return(seen, result, priceChange24h)

\* the callback resumed with the outcome of the yfinance quote
afterQuote(l, reply) ==
    LET priceChange24h == Optional(l.coingeckoData.data, "price_change_percentage_24h")
        seen           == [l EXCEPT !.quote = reply]
    IN  IF reply.kind = "throws" THEN catchFallback(seen, l.result, priceChange24h)
        ELSE IF reply.data.isNull THEN Return(seen, l.result, priceChange24h)
        ELSE LET yfinancePctChange == Or(reply.data.regularMarketChangePercent,
                                         reply.data.changePercent)
             IN  IF typeof(yfinancePctChange) = "number" /\ ~isNaN(yfinancePctChange)
                 THEN Return(seen, l.result, yfinancePctChange)
                 ELSE Return(seen, l.result, priceChange24h)

----------------------------------------------------------------------------
\* route.ts: POST

Response(status, tokens, error) ==
    [status |-> status, chainId |-> 101, tokens |-> tokens, error |-> error]

\* variant: the string is not trimmed before its length is taken
isNonEmptyString_NoTrim(addr) == typeof(addr) = "string" /\ Len(CharsOf[addr.s]) > 0

\* typeof addr === 'string' && addr.trim().length > 0
isNonEmptyString(addr) == typeof(addr) = "string" /\ Len(trim(addr.s)) > 0

\* what POST returns before it starts any lookup, NoResponse when it goes on:
\* request.json() throwing and destructuring null land in the catch of POST
earlyResponse(body) ==
    IF body.kind \in {"unparseable", "null"}
    THEN Response(500, <<>>, Str("Internal server error"))
    ELSE LET addresses == IF body.kind = "object" THEN body.addresses
                          ELSE NotArray("undefined")
         IN  IF addresses.t # "array" \/ Len(addresses.items) = 0
             THEN Response(400, <<>>,
                    Str("Invalid addresses. Must be a non-empty array of token addresses."))
             ELSE IF ~(\A i \in 1..Len(addresses.items) : isNonEmptyString(addresses.items[i]))
             THEN Response(400, <<>>, Str("All addresses must be non-empty strings."))
             ELSE NoResponse

\* variant: the results are collected as the callbacks settle
tokensWithData_AsSettled(ls) == [k \in 1..Len(settled) |-> ls[settled[k]].result]

\* the value of Promise.all over the settled callbacks, in input order
tokensWithData(ls) == [i \in 1..Len(ls) |-> ls[i].result]

\* POST up to its first wait: the body is parsed and validated, and every
\* callback runs through the two Jupiter stubs to its fetchTokenPriceByAddress call
POST(body) ==
    /\ request = NoRequest
    /\ request' = body
    /\ settled' = <<>>
    /\ response' = earlyResponse(body)
    /\ IF earlyResponse(body) = NoResponse
       THEN /\ lookups' = [i \in 1..Len(body.addresses.items) |->
                                NewLookup(body.addresses.items[i].s)]
            /\ providerCalls' = {[provider |-> "fetchTokenPriceByAddress", index |-> i] :
                                    i \in 1..Len(body.addresses.items)}
       ELSE /\ lookups' = <<>>
            /\ providerCalls' = {}
    /\ UNCHANGED <<otherBatch, wrapperVars, formatVars>>

Settle(i, l) ==
    /\ lookups' = [lookups EXCEPT ![i] = l]
    /\ settled' = IF l.pc \in {"returned", "rejected"} THEN Append(settled, i) ELSE settled
    /\ providerCalls' = IF l.pc = "quote"
                        THEN providerCalls \cup {[provider |-> "quote", index |-> i]}
                        ELSE providerCalls
    /\ UNCHANGED <<request, response, otherBatch, wrapperVars, formatVars>>

\* fetchTokenPriceByAddress settles for the address at position i
TokenPriceReturns(i, reply) ==
    /\ lookups[i].pc = "fetchTokenPriceByAddress"
    /\ ~lookups[i].stalled
    /\ Settle(i, afterFetchTokenPrice(lookups[i], reply))

\* the yfinance import and quote settle for the address at position i
QuoteReturns(i, reply) ==
    /\ lookups[i].pc = "quote"
    /\ ~lookups[i].stalled
    /\ Settle(i, afterQuote(lookups[i], reply))

\* the provider call the callback at position i awaits never settles
NeverReturns(i) ==
    /\ lookups[i].pc \in {"fetchTokenPriceByAddress", "quote"}
    /\ ~lookups[i].stalled
    /\ lookups' = [lookups EXCEPT ![i].stalled = TRUE]
    /\ UNCHANGED <<request, settled, providerCalls, response, otherBatch, wrapperVars, formatVars>>

\* Promise.all settles and POST returns: the tokens when every callback
\* returned, the catch of POST when one rejected
Respond ==
    /\ lookups # <<>>
    /\ response = NoResponse
    /\ \/ \A i \in 1..Len(lookups) : lookups[i].pc = "returned"
       \/ \E i \in 1..Len(lookups) : lookups[i].pc = "rejected"
    /\ response' = IF \E i \in 1..Len(lookups) : lookups[i].pc = "rejected"
                   THEN Response(500, <<>>, Str("Internal server error"))
                   ELSE Response(200, tokensWithData(lookups), Undefined)
    /\ UNCHANGED <<request, lookups, settled, providerCalls, otherBatch, wrapperVars, formatVars>>

\* the wrappers as constructed and left alone
WrapperIdle ==
    /\ wrapper = "listener"
    /\ mounted = FALSE
    /\ formRef = FALSE
    /\ form = config("listener", ETHEREUM_CHAIN_ID)
    /\ prev = form
    /\ lastEvent = NoEvent
    /\ cmds = <<>>
    /\ outcome = "none"
    /\ threw = FALSE
    /\ lastIsPrivateStock = FALSE
    /\ lastIsPublicTokenizedStock = FALSE

RouteInit == WrapperIdle /\ RouteIdle /\ FormatIdle

RouteNext ==
    \/ \E body \in Bodies : POST(body)
    \/ \E i \in 1..Len(lookups), reply \in CoingeckoReplies : TokenPriceReturns(i, reply)
    \/ \E i \in 1..Len(lookups), reply \in YahooReplies : QuoteReturns(i, reply)
    \/ \E i \in 1..Len(lookups) : NeverReturns(i)
    \/ Respond

RouteSpec == RouteInit /\ [][RouteNext]_vars

----------------------------------------------------------------------------
\* route.ts: formatMarketCap.  Its argument is held as Amount(hi, lo), that is
\* hi * 10^6 + lo with lo < 10^6: the values of interest pass 10^12, beyond
\* the integers of the model checker.

\* the divisors of formatMarketCap: d millions, or d units
Millions(d) == [inHi |-> TRUE, d |-> d]

Units(d) == [inHi |-> FALSE, d |-> d]

\* value >= unit
AtLeast(v, unit) ==
    IF unit.inHi THEN v.hi >= unit.d
    ELSE v.hi > 0 \/ v.lo >= unit.d

\* variant: the quotient is truncated
toFixed0_Truncate(v, unit) ==
    IF unit.inHi THEN v.hi \div unit.d
    ELSE v.hi * (1000000 \div unit.d) + v.lo \div unit.d

\* (value / unit).toFixed(0): the quotient rounded to the nearest integer, a
\* half going up
toFixed0(v, unit) ==
    IF unit.inHi
    THEN LET whole == v.hi \div unit.d
             rem   == v.hi % unit.d
         IN  IF 2 * rem + (2 * v.lo) \div 1000000 >= unit.d THEN whole + 1 ELSE whole
    ELSE LET whole == v.hi * (1000000 \div unit.d) + v.lo \div unit.d
             rem   == v.lo % unit.d
         IN  IF 2 * rem >= unit.d THEN whole + 1 ELSE whole

formatMarketCap(v) ==
    IF AtLeast(v, Millions(1000000)) THEN "$" \o ToString(toFixed0(v, Millions(1000000))) \o "T"
    ELSE IF AtLeast(v, Millions(1000)) THEN "$" \o ToString(toFixed0(v, Millions(1000))) \o "B"
    ELSE IF AtLeast(v, Millions(1)) THEN "$" \o ToString(toFixed0(v, Millions(1))) \o "M"
    ELSE IF AtLeast(v, Units(1000)) THEN "$" \o ToString(toFixed0(v, Units(1000))) \o "K"
    ELSE "$" \o ToString(toFixed0(v, Units(1)))

\* the millions and the units the arguments are put together from: values
\* at, just below and just above each threshold and each rounding half
HiSamples ==
    {0, 1, 2, 499, 500, 999, 1000, 1499, 1500, 471500, 472000, 472499, 472500,
     999499, 999500, 999999, 1000000, 1499999, 1500000, 2000000000}

LoSamples ==
    {0, 1, 499, 500, 999, 1000, 1499, 1500, 499999, 500000, 999499, 999500, 999999}

FormatInputs == {Amount(h, l) : h \in HiSamples, l \in LoSamples}

\* formatMarketCap(value) is called
CallFormatMarketCap(v) ==
    /\ marketCapValue' = v
    /\ marketCapText' = formatMarketCap(v)
    /\ UNCHANGED <<wrapperVars, routeVars>>

FormatInit == WrapperIdle /\ RouteIdle /\ FormatIdle

FormatNext == \E v \in FormatInputs : CallFormatMarketCap(v)

FormatSpec == FormatInit /\ [][FormatNext]_vars

----------------------------------------------------------------------------
\* route.ts: two POSTs in flight.  Each invocation of POST has its own body,
\* callbacks and Promise.all; the first is held in the route's variables, the
\* second in otherBatch, and the steps of both interleave.

\* variant: an address the first POST has a record for is served from it,
\* without a provider call
started_Cached(body) ==
    LET n      == Len(body.addresses.items)
        hit(i) == \E j \in 1..Len(lookups) :
                     /\ lookups[j].address = body.addresses.items[i].s
                     /\ lookups[j].pc = "returned"
        hitOf(i) == CHOOSE j \in 1..Len(lookups) :
                     /\ lookups[j].address = body.addresses.items[i].s
                     /\ lookups[j].pc = "returned"
    IN  [request |-> body,
         lookups |-> [i \in 1..n |->
                        IF hit(i)
                        THEN [NewLookup(body.addresses.items[i].s) EXCEPT
                                 !.pc = "returned", !.result = lookups[hitOf(i)].result]
                        ELSE NewLookup(body.addresses.items[i].s)],
         settled |-> <<>>,
         providerCalls |-> {[provider |-> "fetchTokenPriceByAddress", index |-> i] :
                               i \in {k \in 1..n : ~hit(k)}},
         response |-> NoResponse]

\* a POST up to its first wait, as in POST above
started(body) ==
    IF earlyResponse(body) = NoResponse
    THEN [request |-> body,
          lookups |-> [i \in 1..Len(body.addresses.items) |->
                          NewLookup(body.addresses.items[i].s)],
          settled |-> <<>>,
          providerCalls |-> {[provider |-> "fetchTokenPriceByAddress", index |-> i] :
                                i \in 1..Len(body.addresses.items)},
          response |-> NoResponse]
    ELSE [request |-> body, lookups |-> <<>>, settled |-> <<>>,
          providerCalls |-> {}, response |-> earlyResponse(body)]

\* a POST after its callback at position i resumed into l, as in Settle above
resumed(b, i, l) ==
    [b EXCEPT !.lookups[i] = l,
              !.settled = IF l.pc \in {"returned", "rejected"} THEN Append(b.settled, i)
                          ELSE b.settled,
              !.providerCalls = IF l.pc = "quote"
                                THEN b.providerCalls \cup {[provider |-> "quote", index |-> i]}
                                ELSE b.providerCalls]

OtherPOST(body) ==
    /\ otherBatch.request = NoRequest
    /\ otherBatch' = started(body)
    /\ UNCHANGED <<request, lookups, settled, providerCalls, response, wrapperVars, formatVars>>

OtherTokenPriceReturns(i, reply) ==
    /\ otherBatch.lookups[i].pc = "fetchTokenPriceByAddress"
    /\ otherBatch' = resumed(otherBatch, i, afterFetchTokenPrice(otherBatch.lookups[i], reply))
    /\ UNCHANGED <<request, lookups, settled, providerCalls, response, wrapperVars, formatVars>>

OtherQuoteReturns(i, reply) ==
    /\ otherBatch.lookups[i].pc = "quote"
    /\ otherBatch' = resumed(otherBatch, i, afterQuote(otherBatch.lookups[i], reply))
    /\ UNCHANGED <<request, lookups, settled, providerCalls, response, wrapperVars, formatVars>>

OtherRespond ==
    /\ otherBatch.lookups # <<>>
    /\ otherBatch.response = NoResponse
    /\ \/ \A i \in 1..Len(otherBatch.lookups) : otherBatch.lookups[i].pc = "returned"
       \/ \E i \in 1..Len(otherBatch.lookups) : otherBatch.lookups[i].pc = "rejected"
    /\ otherBatch' =
          [otherBatch EXCEPT !.response =
              IF \E i \in 1..Len(otherBatch.lookups) : otherBatch.lookups[i].pc = "rejected"
              THEN Response(500, <<>>, Str("Internal server error"))
              ELSE Response(200, tokensWithData(otherBatch.lookups), Undefined)]
    /\ UNCHANGED <<request, lookups, settled, providerCalls, response, wrapperVars, formatVars>>

\* the bodies and replies of the two POSTs: batches that share an address,
\* and a reply of each kind
ConcurrentBodies ==
    {[kind |-> "object", addresses |-> Array(<<Str("STOCK")>>)],
     [kind |-> "object", addresses |-> Array(<<Str("COIN")>>)],
     [kind |-> "object", addresses |-> Array(<<Str("STOCK"), Str("COIN")>>)]}

ConcurrentCoingeckoReplies ==
    {[kind |-> "throws", data |-> NoCoinData],
     [kind |-> "returns", data |-> CoinData(Num(5000), Num(472000), Num(-2))],
     [kind |-> "returns", data |-> CoinData(Num(5000), Num(472000), NaN)]}

ConcurrentYahooReplies ==
    {[kind |-> "throws", data |-> NoQuote],
     [kind |-> "returns", data |-> Quote(Num(2), Undefined)]}

ConcurrentInit == RouteInit

ConcurrentNext ==
    \/ \E body \in ConcurrentBodies : POST(body)
    \/ \E i \in 1..Len(lookups), reply \in ConcurrentCoingeckoReplies :
          TokenPriceReturns(i, reply)
    \/ \E i \in 1..Len(lookups), reply \in ConcurrentYahooReplies : QuoteReturns(i, reply)
    \/ Respond
    \/ \E body \in ConcurrentBodies : OtherPOST(body)
    \/ \E i \in 1..Len(otherBatch.lookups), reply \in ConcurrentCoingeckoReplies :
          OtherTokenPriceReturns(i, reply)
    \/ \E i \in 1..Len(otherBatch.lookups), reply \in ConcurrentYahooReplies :
          OtherQuoteReturns(i, reply)
    \/ OtherRespond

ConcurrentSpec == ConcurrentInit /\ [][ConcurrentNext]_vars

----------------------------------------------------------------------------
\* Vocabulary of the properties

OnListener == wrapper = "listener"

Applied == outcome = "applied"

Legs == {"fromChain", "fromToken", "toChain", "toToken"}

SourceLeg == {"fromChain", "fromToken"}

DestinationLeg == {"toChain", "toToken"}

ChainFields == {"fromChain", "toChain"}

Written == {cmds[i].field : i \in DOMAIN cmds}

\* two addresses that differ at most in the case of their letters
SameIgnoringCase(a, b) ==
    /\ Len(CharsOf[a]) = Len(CharsOf[b])
    /\ \A i \in 1..Len(CharsOf[a]) :
          \/ CharsOf[a][i] = CharsOf[b][i]
          \/ \E k \in 1..Len(UpperCaseLetters) :
                {CharsOf[a][i], CharsOf[b][i]} = {UpperCaseLetters[k], LowerCaseLetters[k]}

\* the three categories as the specification words them
Category(token) ==
    IF token.chainId = "101" THEN "PrivateRestrictedAsset"
    ELSE IF token.chainId = "1" /\ ~SameIgnoringCase(token.address, ETHEREUM_USDC)
         THEN "PublicTokenizedEquity"
    ELSE "Ordinary"

\* the form the widget is configured with when the listener wrapper renders
ListenerConfig == config("listener", "1")

----------------------------------------------------------------------------
\* C1: a Destination selection of a PublicTokenizedEquity token (chain 1,
\* not USDC), applied through an available control surface, leaves
\* source = (1, Ethereum USDC) and destination = (1, token.address),
\* whatever the form held before.
C1_PublicEquityForcesUsdcSource ==
    (OnListener /\ Applied /\ lastEvent.type = "buy"
        /\ Category(lastEvent.token) = "PublicTokenizedEquity")
    => /\ form.fromChain = "1"
       /\ form.fromToken = ETHEREUM_USDC
       /\ form.toChain = "1"
       /\ form.toToken = lastEvent.token.address

C1_Witness ==
    /\ OnListener /\ Applied /\ lastEvent.type = "buy"
    /\ Category(lastEvent.token) = "PublicTokenizedEquity"
    /\ prev.fromChain = "101"
    /\ form.fromChain = "1"
    /\ form.fromToken = ETHEREUM_USDC

\* C2: a Destination selection of a PrivateRestrictedAsset token (chain 101)
\* leaves both chains at the execution identifier 1151111081099710, the
\* source token at Solana USDC and the destination token at token.address.
C2_PrivateAssetPinsBothLegs ==
    (OnListener /\ Applied /\ lastEvent.type = "buy"
        /\ Category(lastEvent.token) = "PrivateRestrictedAsset")
    => /\ form.fromChain = "1151111081099710"
       /\ form.toChain = "1151111081099710"
       /\ form.fromToken = SOLANA_USDC
       /\ form.toToken = lastEvent.token.address

C2_Witness ==
    /\ OnListener /\ Applied /\ lastEvent.type = "buy"
    /\ lastEvent.token.chainId = "101"
    /\ prev.fromChain # "1151111081099710"
    /\ prev.toChain # "1151111081099710"
    /\ form.fromChain = "1151111081099710"
    /\ form.toChain = "1151111081099710"

\* C3: a Source selection, in either wrapper and whatever its token's
\* category, leaves destinationChain and destinationToken as they were.
C3_SourceSelectionKeepsDestination ==
    (lastEvent.type = "sell")
    => /\ form.toChain = prev.toChain
       /\ form.toToken = prev.toToken

C3_Witness ==
    /\ Applied /\ lastEvent.type = "sell"
    /\ lastEvent.token.chainId = "101"
    /\ form.fromChain # prev.fromChain
    /\ form.toToken # INITIAL_TO_TOKEN

C5_ClassificationTotalExclusive ==
    (OnListener /\ Applied)
    => /\ lastIsPrivateStock
            <=> (Category(lastEvent.token) = "PrivateRestrictedAsset")
       /\ lastIsPublicTokenizedStock
            <=> (Category(lastEvent.token) = "PublicTokenizedEquity")
       /\ ~(lastIsPrivateStock /\ lastIsPublicTokenizedStock)
       /\ (lastEvent.token.chainId = "1"
            /\ SameIgnoringCase(lastEvent.token.address, ETHEREUM_USDC))
          => (~lastIsPrivateStock /\ ~lastIsPublicTokenizedStock)

C5_Witness ==
    /\ OnListener /\ Applied
    /\ lastEvent.token = [chainId |-> "1", address |-> ETHEREUM_USDC_LOWERCASE]
    /\ ~lastIsPrivateStock
    /\ ~lastIsPublicTokenizedStock

\* C6: a Destination selection of an Ordinary token sets destination to
\* (token.chainId, token.address) and leaves sourceChain and sourceToken as
\* they were.
C6_OrdinaryDestinationKeepsSource ==
    (OnListener /\ Applied /\ lastEvent.type = "buy"
        /\ Category(lastEvent.token) = "Ordinary")
    => /\ form.toChain = lastEvent.token.chainId
       /\ form.toToken = lastEvent.token.address
       /\ form.fromChain = prev.fromChain
       /\ form.fromToken = prev.fromToken

C6_Witness ==
    /\ OnListener /\ Applied /\ lastEvent.type = "buy"
    /\ Category(lastEvent.token) = "Ordinary"
    /\ form.toChain # prev.toChain
    /\ form.fromChain = "101"

\* C7: a Source selection sets source to exactly (token.chainId,
\* token.address), for tokens of all three categories.
C7_SourceSelectionSetsSourceVerbatim ==
    (OnListener /\ Applied /\ lastEvent.type = "sell")
    => /\ form.fromChain = lastEvent.token.chainId
       /\ form.fromToken = lastEvent.token.address

C7_Witness ==
    /\ OnListener /\ Applied /\ lastEvent.type = "sell"
    /\ Category(lastEvent.token) = "PrivateRestrictedAsset"
    /\ prev.fromChain = "1"
    /\ form.fromChain = "101"

\* C8: for a selection (Source or Destination) of a token with chainId 101, no
\* command sets fromChain or toChain to the search identifier 101.
C8_SearchIdNeverWritten ==
    (OnListener /\ lastEvent.token.chainId = "101")
    => \A i \in DOMAIN cmds :
          cmds[i].field \in ChainFields => cmds[i].value # "101"

\* C9: a selection that arrives while formRef.current is unavailable issues no
\* command, leaves the form as it was and raises nothing, also once the
\* control surface has become available (no retry); the next selection that
\* is applied starts from the form as it stood before the dropped one.
C9_DroppedWhenNotReady ==
    /\ [](outcome = "notReady" => (cmds = <<>> /\ form = prev /\ ~threw))
    /\ [][(outcome = "notReady" /\ outcome' = "applied")
            => (prev' = prev /\ form' = ApplyCalls(prev, cmds'))]_vars

C9_Witness ==
    /\ outcome = "notReady"
    /\ formRef
    /\ lastEvent.type = "buy"
    /\ lastEvent.token.chainId = "101"

\* C10 as stated: after an applied selection the chain and token of both legs
\* are determined by that selection alone - they are what the selection
\* produces from the configured form, whatever selection came before.
C10_SecondSelectionSupersedes ==
    (OnListener /\ Applied)
    => \A f \in Legs : form[f] = ApplyCalls(ListenerConfig, cmds)[f]

\* C10 amended: the fields a resolution writes are determined by the
\* selection alone and the others keep what the previous selection left; a
\* Destination selection of a private or public-equity token writes both
\* legs, a Source selection only the source leg and an Ordinary Destination
\* selection only the destination leg.
C10_SupersedesWrittenLegs ==
    (OnListener /\ Applied)
    => /\ \A f \in Written : form[f] = ApplyCalls(ListenerConfig, cmds)[f]
       /\ \A f \in Legs \ Written : form[f] = prev[f]
       /\ Written = IF lastEvent.type = "sell" THEN SourceLeg
                    ELSE IF Category(lastEvent.token) = "Ordinary" THEN DestinationLeg
                    ELSE Legs

C10_Witness ==
    /\ OnListener /\ Applied /\ lastEvent.type = "sell"
    /\ form.toToken # ListenerConfig.toToken
    /\ form.toToken = prev.toToken

----------------------------------------------------------------------------
\* Vocabulary of the route's properties

\* the request carries a non-empty array of token addresses
ValidBatch ==
    /\ request.kind = "object"
    /\ request.addresses.t = "array"
    /\ request.addresses.items # <<>>
    /\ \A i \in 1..Len(request.addresses.items) :
          request.addresses.items[i] \in {Str(a) : a \in RouteAddresses}

Responded == response # NoResponse

BatchSize == Len(request.addresses.items)

Present(x) == x.t # "undefined"

----------------------------------------------------------------------------
\* C11: the success response of a valid batch holds exactly one record per
\* input address, record i carrying the address at input position i, in
\* whatever order the per-address lookups settled.
C11_OneRecordPerAddressInOrder ==
    (ValidBatch /\ response.status = 200) =>
        /\ Len(response.tokens) = BatchSize
        /\ \A i \in 1..BatchSize :
              response.tokens[i].address = request.addresses.items[i].s

\* a batch of two different addresses answered after its second lookup
\* settled before its first
C11_Witness ==
    /\ ValidBatch
    /\ response.status = 200
    /\ BatchSize = 2
    /\ request.addresses.items[1] # request.addresses.items[2]
    /\ settled = <<2, 1>>

\* the record a callback alone produces for an address from the replies to
\* its own provider calls
OwnRecord(l) ==
    LET first == afterFetchTokenPrice(NewLookup(l.address), l.coingeckoData)
    IN  IF first.pc = "quote" THEN afterQuote(first, l.quote).result
        ELSE first.result

\* C12: the record of each address is the one its own provider replies give,
\* whether the calls for the other addresses of the batch returned data,
\* returned nothing or threw; a step of one lookup leaves the others as
\* they were.
C12_PerTokenIsolation ==
    /\ \A i \in 1..Len(lookups) :
          lookups[i].pc = "returned" => lookups[i].result = OwnRecord(lookups[i])
    /\ (ValidBatch /\ Responded) =>
          /\ response.status = 200
          /\ \A i \in 1..BatchSize : response.tokens[i] = OwnRecord(lookups[i])

\* a batch answered with the full record of its second address although the
\* provider call for its first address threw
C12_Witness ==
    /\ ValidBatch
    /\ Responded
    /\ BatchSize = 2
    /\ lookups[1].coingeckoData.kind = "throws"
    /\ lookups[2].coingeckoData.kind = "returns"
    /\ Present(response.tokens[2].marketCap)
    /\ Present(response.tokens[2].priceChange24h)

\* an entry that is no string, or a string of white space only
BlankEntry(e) ==
    \/ e.t # "string"
    \/ \A k \in 1..Len(CharsOf[e.s]) : CharsOf[e.s][k] \in WhiteSpace

\* the request carries an addresses array that is empty or has a blank entry
InvalidList ==
    /\ request.kind = "object"
    /\ request.addresses.t = "array"
    /\ \/ request.addresses.items = <<>>
       \/ \E i \in 1..Len(request.addresses.items) : BlankEntry(request.addresses.items[i])

\* C13: a request whose addresses array is empty or holds an entry that is
\* not a string or is blank is answered 400 with no tokens and an error
\* message, and no provider call is issued for any of its addresses.
C13_InvalidListRejected ==
    InvalidList =>
        /\ response.status = 400
        /\ response.tokens = <<>>
        /\ response.error.t = "string" /\ response.error.s # ""
        /\ providerCalls = {}
        /\ lookups = <<>>

\* a valid address followed by a white-space entry, rejected
C13_Witness ==
    /\ request.kind = "object"
    /\ request.addresses = Array(<<Str("STOCK"), Str(" ")>>)
    /\ response.status = 400
    /\ providerCalls = {}

\* a provider call that threw or resolved to nothing
Failed(reply) ==
    \/ reply.kind = "throws"
    \/ reply.kind = "returns" /\ reply.data.isNull

\* every provider call made for the address of a callback failed
AllCallsFailed(l) ==
    /\ l.pc = "returned"
    /\ Failed(l.coingeckoData)
    /\ l.quote.kind # "none" => Failed(l.quote)

\* the record with zero volume and no optional field
ZeroRecord(address) ==
    [address |-> address, volumeUSD |-> Num(0), tvlUSD |-> Undefined,
     marketCap |-> Undefined, marketCapFormatted |-> Undefined,
     priceChange24h |-> Undefined]

\* C14: when every provider call for one address of a valid batch fails, its
\* record has volume 0 and no liquidity, market-cap, formatted market-cap or
\* price-change field, the other records are the ones their own replies
\* give, and the response has status 200 and no error field.
C14_FailedAddressGetsZeroRecord ==
    (ValidBatch /\ Responded
        /\ \E i \in 1..BatchSize : AllCallsFailed(lookups[i])) =>
        /\ response.status = 200
        /\ ~Present(response.error)
        /\ \A i \in 1..BatchSize :
              IF AllCallsFailed(lookups[i])
              THEN response.tokens[i] = ZeroRecord(request.addresses.items[i].s)
              ELSE response.tokens[i] = OwnRecord(lookups[i])

\* the price lookup of the first address resolved to nothing and its quote
\* call threw, while the second address got its data
C14_Witness ==
    /\ ValidBatch
    /\ response.status = 200
    /\ BatchSize = 2
    /\ lookups[1].coingeckoData.kind = "returns"
    /\ lookups[1].quote.kind = "throws"
    /\ AllCallsFailed(lookups[1])
    /\ ~AllCallsFailed(lookups[2])
    /\ Present(response.tokens[2].marketCap)

\* the request has no addresses array: its body is no JSON, is null, is no
\* object, or is an object whose addresses is missing or no array
MalformedBody ==
    \/ request.kind \in {"unparseable", "null", "number"}
    \/ request.kind = "object" /\ request.addresses.t # "array"

\* C15: malformed input of every shape - addresses missing or no list, a
\* body that is null or cannot be parsed - is answered with status 400 and
\* a message before any provider is contacted.
C15_MalformedBodyRejected400 ==
    MalformedBody =>
        /\ response.status = 400
        /\ response.error.t = "string" /\ response.error.s # ""
        /\ providerCalls = {}

\* what a Jupiter market-cap lookup can resolve to: nothing, an empty text,
\* a formatted market cap
JupiterMarketCaps == {Null, Str(""), Str("$472B")}

\* C16: every record carries at most one of marketCap and marketCapFormatted;
\* the formatted value of the venue is the one used whenever there is one,
\* and the numeric market cap of the price index only when there is none.
\* The first conjunct is about the records the route produces, where the
\* Jupiter lookup is disabled; the second puts the same merge before every
\* value a Jupiter lookup can resolve to.
C16_MarketCapExclusive ==
    /\ \A i \in 1..Len(lookups) :
          lookups[i].pc = "returned" =>
            LET r        == lookups[i].result
                venue    == fetchJupiterMarketCap(lookups[i].address)
                numeric  == Optional(lookups[i].coingeckoData.data, "market_cap")
            IN  /\ ~(Present(r.marketCap) /\ Present(r.marketCapFormatted))
                /\ Truthy(venue) => r.marketCapFormatted = venue
                /\ Present(r.marketCapFormatted) => r.marketCapFormatted = venue
                /\ Present(r.marketCap) => ~Truthy(venue) /\ r.marketCap = numeric
                /\ (Responded /\ response.status = 200) => response.tokens[i] = r
    /\ \A venue \in JupiterMarketCaps, reply \in CoingeckoReplies :
          LET f == marketCapFields(venue, reply.data)
          IN  /\ ~(Present(f.marketCap) /\ Present(f.marketCapFormatted))
              /\ Truthy(venue) => f.marketCapFormatted = venue /\ ~Present(f.marketCap)
              /\ ~Truthy(venue) =>
                    /\ ~Present(f.marketCapFormatted)
                    /\ Present(f.marketCap) => f.marketCap = reply.data.market_cap

\* a record of a response carrying the numeric market cap of the price
\* index and no formatted one
C16_Witness ==
    /\ response.status = 200
    /\ \E i \in 1..Len(response.tokens) :
          /\ response.tokens[i].marketCap = Num(472000)
          /\ ~Present(response.tokens[i].marketCapFormatted)

\* the general provider gave no usable price change
NoPriceChange(data) ==
    Optional(data, "price_change_percentage_24h").t \in {"undefined", "null", "NaN"}

\* the callback went into the price-change fallback and the metadata lookup
\* or the quote call threw
FallbackFailed(l) ==
    /\ l.pc = "returned"
    /\ l.coingeckoData.kind = "returns"
    /\ NoPriceChange(l.coingeckoData.data)
    /\ \/ getTokenMetadata(l.address).kind = "throws"
       \/ l.quote.kind = "throws"

\* C17: when the price-change fallback fails - the metadata lookup or the
\* quote call throws - the record has no priceChange24h and its other fields
\* are the ones computed from the other providers; the response keeps status
\* 200 and carries no error.
C17_FallbackFailureSwallowed ==
    \A i \in 1..Len(lookups) :
        FallbackFailed(lookups[i]) =>
            LET l      == lookups[i]
                others == NewResult(l.address, fetchJupiterLiquidity(l.address),
                                    fetchJupiterMarketCap(l.address), l.coingeckoData.data)
            IN  /\ ~Present(l.result.priceChange24h)
                /\ l.result = others
                /\ Responded =>
                      /\ response.status = 200
                      /\ ~Present(response.error)
                      /\ response.tokens[i] = l.result

\* a tokenized stock whose quote call threw, answered with the volume and
\* market cap of the price index and no price change
C17_Witness ==
    /\ response.status = 200
    /\ \E i \in 1..Len(lookups) :
          /\ FallbackFailed(lookups[i])
          /\ lookups[i].quote.kind = "throws"
          /\ response.tokens[i].volumeUSD = Num(5000)
          /\ response.tokens[i].marketCap = Num(472000)
          /\ ~Present(response.tokens[i].priceChange24h)

\* C18: a provider call that never returns cannot stall the batch - a valid
\* batch that has no response yet can always take a further step towards
\* one, so that it is eventually answered (with status 200 and the stalled
\* field absent).
C18_StalledCallCannotStallBatch ==
    ValidBatch => (Responded \/ ENABLED RouteNext)

----------------------------------------------------------------------------
\* Vocabulary of the formatting property: arithmetic on amounts

\* the largest number that can stand before a suffix for the arguments drawn
MaxRendered == 2001

Less(a, b) == a.hi < b.hi \/ (a.hi = b.hi /\ a.lo < b.lo)

\* n thousands, n millions, n billions, n trillions
Times(n, suffix) ==
    IF suffix = "T" THEN Amount(n * 1000000, 0)
    ELSE IF suffix = "B" THEN Amount(n * 1000, 0)
    ELSE IF suffix = "M" THEN Amount(n, 0)
    ELSE IF suffix = "K" THEN Amount((n * 1000) \div 1000000, (n * 1000) % 1000000)
    ELSE Amount(n \div 1000000, n % 1000000)

\* a + half a thousand, half a million, ...
PlusHalf(a, suffix) ==
    IF suffix = "T" THEN Amount(a.hi + 500000, a.lo)
    ELSE IF suffix = "B" THEN Amount(a.hi + 500, a.lo)
    ELSE IF suffix = "M" THEN Amount(a.hi + (a.lo + 500000) \div 1000000, (a.lo + 500000) % 1000000)
    ELSE IF suffix = "K" THEN Amount(a.hi + (a.lo + 500) \div 1000000, (a.lo + 500) % 1000000)
    ELSE a

\* the suffix the magnitude of an amount calls for
SuffixOf(v) ==
    IF ~Less(v, Times(1, "T")) THEN "T"
    ELSE IF ~Less(v, Times(1, "B")) THEN "B"
    ELSE IF ~Less(v, Times(1, "M")) THEN "M"
    ELSE IF ~Less(v, Times(1, "K")) THEN "K"
    ELSE ""

\* n is v divided by the unit of the suffix and rounded to zero decimal
\* places: (n - 1) + 1/2 <= v / unit < n + 1/2
RoundsTo(v, suffix, n) ==
    IF suffix = "" THEN v = Times(n, "")
    ELSE /\ n > 0
         /\ ~Less(v, PlusHalf(Times(n - 1, suffix), suffix))
         /\ Less(v, PlusHalf(Times(n, suffix), suffix))

Called == marketCapText # ""

\* C19: formatMarketCap renders a value of at least 10^12 as "$", the value
\* divided by 10^12 and rounded to zero decimal places, and "T"; else one of
\* at least 10^9 likewise with "B", of at least 10^6 with "M", of at least
\* 10^3 with "K", and a smaller one as "$" and the value; 472_000_000_000
\* gives "$472B", 999 gives "$999" and 1_000_000_000_000 gives "$1T".
C19_FormatMarketCap ==
    Called =>
        /\ \E n \in 0..MaxRendered :
              /\ RoundsTo(marketCapValue, SuffixOf(marketCapValue), n)
              /\ marketCapText = "$" \o ToString(n) \o SuffixOf(marketCapValue)
        /\ marketCapValue = Amount(472000, 0) => marketCapText = "$472B"
        /\ marketCapValue = Amount(0, 999) => marketCapText = "$999"
        /\ marketCapValue = Amount(1000000, 0) => marketCapText = "$1T"

\* 472_500_000_000, a half that rounds up, rendered "$473B"
C19_Witness ==
    /\ marketCapValue = Amount(472500, 0)
    /\ marketCapText = "$473B"

----------------------------------------------------------------------------
\* the commands that the selection alone calls for: the selected pair on
\* the source leg, or on the destination leg behind the source its category
\* forces
Resolution(type, token) ==
    LET pair(chainField, chain, tokenField, address) ==
            << [field |-> chainField, value |-> chain],
               [field |-> tokenField, value |-> address] >>
    IN  IF type = "sell"
        THEN pair("fromChain", token.chainId, "fromToken", token.address)
        ELSE IF Category(token) = "PrivateRestrictedAsset"
        THEN pair("fromChain", "1151111081099710", "fromToken", SOLANA_USDC)
             \o pair("toChain", "1151111081099710", "toToken", token.address)
        ELSE IF Category(token) = "PublicTokenizedEquity"
        THEN pair("fromChain", "1", "fromToken", ETHEREUM_USDC)
             \o pair("toChain", "1", "toToken", token.address)
        ELSE pair("toChain", token.chainId, "toToken", token.address)

\* C20: with the control surface available, the commands issued for a
\* selection are a function of the selection alone - the same in whatever
\* state the form is - and the resolution reaches no provider: the route
\* receives no request and no provider call is issued.
C20_ResolutionIndependentOfForm ==
    /\ (OnListener /\ outcome \in {"applied", "ignored"}) =>
          cmds = Resolution(lastEvent.type, lastEvent.token)
    /\ request = NoRequest
    /\ providerCalls = {}

\* an ordinary destination selection resolved on a form whose source and
\* destination both differ from the configured ones
C20_Witness ==
    /\ OnListener /\ Applied
    /\ lastEvent.type = "buy"
    /\ Category(lastEvent.token) = "Ordinary"
    /\ prev.fromChain # ListenerConfig.fromChain
    /\ prev.toToken # ListenerConfig.toToken
    /\ cmds = Resolution(lastEvent.type, lastEvent.token)

----------------------------------------------------------------------------
\* C21: both legs stay pinned to the restricted venue - in every form state
\* the selections can reach, a destination leg on the execution identifier
\* of the restricted venue (where only a Destination selection of a private
\* asset puts it) goes with a source leg on that identifier too.
C21_BothLegsPinned ==
    (OnListener /\ form.toChain = SOLANA_CHAIN_ID_LIFI) =>
        form.fromChain = SOLANA_CHAIN_ID_LIFI

\* the (chain, token) pair of a leg of a form
SourcePair(f) == <<f.fromChain, f.fromToken>>

DestinationPair(f) == <<f.toChain, f.toToken>>

\* the form as the widget holds it after the first k commands of the last
\* resolution
FormAfter(k) == ApplyCalls(prev, SubSeq(cmds, 1, k))

\* C22: the widget never holds a (chain, token) pair that never existed
\* together - after each single setFieldValue of a resolution the pair of
\* each leg is the pair the leg had before the selection or the pair the
\* resolution gives it.
C22_NoMixedPairBetweenCommands ==
    (OnListener /\ Applied) =>
        \A k \in 1..Len(cmds) :
            /\ SourcePair(FormAfter(k)) \in {SourcePair(prev), SourcePair(form)}
            /\ DestinationPair(FormAfter(k)) \in {DestinationPair(prev), DestinationPair(form)}

----------------------------------------------------------------------------
\* the first POST, put together like the second
FirstBatch ==
    [request |-> request, lookups |-> lookups, settled |-> settled,
     providerCalls |-> providerCalls, response |-> response]

\* every address of the batch had its own provider call, and a record is
\* returned only after the reply to that call
CallsOwnProviders(b) ==
    b.request # NoRequest =>
        /\ Len(b.lookups) = Len(b.request.addresses.items)
        /\ \A i \in 1..Len(b.lookups) :
              /\ b.lookups[i].address = b.request.addresses.items[i].s
              /\ [provider |-> "fetchTokenPriceByAddress", index |-> i] \in b.providerCalls
              /\ b.lookups[i].pc = "returned" => b.lookups[i].coingeckoData.kind # "none"

\* the response of the batch is the one its own addresses and the replies to
\* its own calls give
AnsweredFromOwnReplies(b) ==
    b.response # NoResponse =>
        /\ b.response.status = 200
        /\ ~Present(b.response.error)
        /\ Len(b.response.tokens) = Len(b.request.addresses.items)
        /\ \A i \in 1..Len(b.response.tokens) :
              /\ b.response.tokens[i].address = b.request.addresses.items[i].s
              /\ b.response.tokens[i] = OwnRecord(b.lookups[i])

\* C23: two POSTs in flight together are independent - under every
\* interleaving of their provider calls each gets its one response, built
\* from its own address list and the replies to its own calls, and each
\* queries the providers for every one of its addresses whatever the other
\* has already fetched.
C23_ConcurrentBatchesIndependent ==
    \A b \in {FirstBatch, otherBatch} :
        CallsOwnProviders(b) /\ AnsweredFromOwnReplies(b)

\* both POSTs asked for the same address and both are answered, the first
\* with the data its call returned, the second with the zero record its
\* throwing call left
C23_Witness ==
    /\ response.status = 200
    /\ otherBatch.response.status = 200
    /\ request.addresses.items[1] = Str("STOCK")
    /\ otherBatch.request.addresses.items[1] = Str("STOCK")
    /\ lookups[1].coingeckoData.kind = "returns"
    /\ otherBatch.lookups[1].coingeckoData.kind = "throws"
    /\ Present(response.tokens[1].marketCap)
    /\ otherBatch.response.tokens[1] = ZeroRecord("STOCK")

----------------------------------------------------------------------------
IsNumber(x) == x.t = "number"

\* the price change the general provider gave for a lookup, if it replied
IndexPriceChange(l) ==
    IF l.coingeckoData.kind = "returns"
    THEN Optional(l.coingeckoData.data, "price_change_percentage_24h")
    ELSE Undefined

\* the token of a lookup passes the tradable-equity test and has a ticker
TradableEquity(l) ==
    /\ l.address \in DOMAIN TokenCatalog
    /\ TokenCatalog[l.address].kind = "token"
    /\ TokenCatalog[l.address].isTokenizedStock
    /\ TokenCatalog[l.address].ticker # ""

\* C24: the price change of a record is the general provider's value
\* whenever that is a number; the quotes provider is asked only when it is
\* missing or not a number and the token passes the tradable-equity test;
\* and the field is present only when one of the two supplied a number.
C24_PriceChangePriority ==
    \A i \in 1..Len(lookups) :
        LET l == lookups[i]
        IN  /\ [provider |-> "quote", index |-> i] \in providerCalls =>
                  /\ l.coingeckoData.kind = "returns"
                  /\ ~IsNumber(IndexPriceChange(l))
                  /\ TradableEquity(l)
            /\ l.pc = "returned" =>
                  /\ IsNumber(IndexPriceChange(l)) =>
                        l.result.priceChange24h = IndexPriceChange(l)
                  /\ Present(l.result.priceChange24h) =>
                        /\ IsNumber(l.result.priceChange24h)
                        /\ \/ l.result.priceChange24h = IndexPriceChange(l)
                           \/ /\ l.quote.kind = "returns"
                              /\ l.result.priceChange24h \in
                                    {l.quote.data.regularMarketChangePercent,
                                     l.quote.data.changePercent}
                  /\ (Responded /\ response.status = 200) => response.tokens[i] = l.result

\* a tokenized stock for which the general provider had no usable price
\* change, answered with the one of the quotes provider
C24_Witness ==
    /\ response.status = 200
    /\ \E i \in 1..Len(lookups) :
          /\ IndexPriceChange(lookups[i]) = NaN
          /\ lookups[i].quote.data = Quote(Num(2), Undefined)
          /\ response.tokens[i].priceChange24h = Num(2)

\* the values the sources supplied for a lookup
IndexField(l, name) ==
    IF l.coingeckoData.kind = "returns" THEN Optional(l.coingeckoData.data, name)
    ELSE Undefined

QuoteValues(l) ==
    IF l.quote.kind = "returns" /\ ~l.quote.data.isNull
    THEN {l.quote.data.regularMarketChangePercent, l.quote.data.changePercent}
    ELSE {}

\* a field that is absent or holds a number or a text
AbsentOrValue(x) == ~Present(x) \/ x.t \in {"number", "string"}

\* C25: every record has its volume, 0 when the general provider supplied
\* none; each optional field is absent or holds the value a source supplied
\* - never null, undefined or not-a-number, and never a 0 put in for
\* missing data.
C25_OptionalFieldsAbsentNotZero ==
    \A i \in 1..Len(lookups) :
        lookups[i].pc = "returned" =>
            LET l == lookups[i]
                r == l.result
            IN  /\ IsNumber(r.volumeUSD)
                /\ r.volumeUSD = IF IsNumber(IndexField(l, "total_volume"))
                                 THEN IndexField(l, "total_volume") ELSE Num(0)
                /\ AbsentOrValue(r.tvlUSD) /\ AbsentOrValue(r.marketCap)
                /\ AbsentOrValue(r.marketCapFormatted) /\ AbsentOrValue(r.priceChange24h)
                /\ Present(r.tvlUSD) =>
                      r.tvlUSD = fetchJupiterLiquidity(l.address) /\ r.tvlUSD # Num(0)
                /\ Present(r.marketCapFormatted) =>
                      r.marketCapFormatted = fetchJupiterMarketCap(l.address)
                /\ Present(r.marketCap) =>
                      r.marketCap = IndexField(l, "market_cap") /\ r.marketCap # Num(0)
                /\ Present(r.priceChange24h) =>
                      r.priceChange24h \in
                          {IndexField(l, "price_change_percentage_24h")} \cup QuoteValues(l)
                /\ (Responded /\ response.status = 200) => response.tokens[i] = r

\* a record for which the general provider supplied zeros: volume 0, no
\* market cap, and the price change 0 it supplied
C25_Witness ==
    /\ response.status = 200
    /\ \E i \in 1..Len(lookups) :
          /\ lookups[i].coingeckoData.data = CoinData(Num(0), Num(0), Num(0))
          /\ response.tokens[i].volumeUSD = Num(0)
          /\ ~Present(response.tokens[i].marketCap)
          /\ response.tokens[i].priceChange24h = Num(0)

----------------------------------------------------------------------------
\* C26: no resolution touches the amount - after any sequence of selections,
\* of both roles and all categories and in either wrapper, fromAmount is the
\* configured '100', and the only fields a resolution writes are fromChain,
\* fromToken, toChain and toToken.
C26_AmountNeverWritten ==
    /\ form.fromAmount = "100"
    /\ prev.fromAmount = "100"
    /\ Written \subseteq Legs
    /\ \A k \in 0..Len(cmds) : FormAfter(k).fromAmount = "100"

\* a form whose four leg fields were all rewritten by selections and whose
\* amount is still the configured one
C26_Witness ==
    /\ Applied
    /\ \A f \in Legs : form[f] # ListenerConfig[f]
    /\ form.fromAmount = "100"

\* C27: the handler is reachable exactly while the wrapper is mounted - a
\* selection dispatched before the mount or after the unmount runs no
\* handler, issues no command and leaves the form as it is, and a selection
\* dispatched to a mounted wrapper is handled once: the form moves by one
\* application of the commands of that one selection.
C27_HandlerReachableWhileMounted ==
    /\ [](outcome = "unheard" => (cmds = <<>> /\ form = prev /\ lastEvent = NoEvent))
    /\ [][last' # last =>
            IF mounted
            THEN /\ outcome' \in {"notReady", "ignored", "applied"}
                 /\ lastEvent' # NoEvent
                 /\ prev' = form
                 /\ form' = ApplyCalls(form, cmds')
                 /\ Len(cmds') <= 4
                 /\ (OnListener /\ formRef) =>
                       cmds' = Resolution(lastEvent'.type, lastEvent'.token)
            ELSE /\ outcome' = "unheard"
                 /\ cmds' = <<>>
                 /\ form' = form]_vars

\* a selection dispatched after the unmount of a wrapper that had resolved
\* selections before: it went unheard and the form kept what they left
C27_Witness ==
    /\ ~mounted
    /\ outcome = "unheard"
    /\ form = prev
    /\ form.toToken # INITIAL_TO_TOKEN

====
